---- MODULE Spec2Model ----
(***************************************************************************)
(* Banana ripeness classification core (utils/color_detection.py).         *)
(*                                                                         *)
(* The core is a set of functions called one at a time by a caller (the    *)
(* web boundary or the test suite).  The state is the call in progress:    *)
(* which function was called, its arguments and what it returned or        *)
(* raised, and the web request being handled (app.py), step by step.       *)
(* Python floats are modelled as exact rationals n/d.                      *)
(***************************************************************************)
EXTENDS Integers, Sequences, FiniteSets, TLC

\* fn, hue, stage, hex_color, image: the call in progress and its arguments;
\* result: its outcome; globals: the module-level tables, which outlive a call;
\* request: the web request being handled and the position of its handler
VARIABLES fn, hue, stage, hex_color, image, result, globals, request

vars == <<fn, hue, stage, hex_color, image, result, globals, request>>

----------------------------------------------------------------------------
(* Bounds of the model                                                     *)

\* hues are drawn from -MaxHue..MaxHue degrees
MaxHue == 720
\* ... in steps of 1/d degree for every d in 1..HueDenMax
HueDenMax == 2
\* stages are drawn from (1 - StageSpan)..(7 + StageSpan)
StageSpan == 3
\* hex colour strings have at most MaxHexLen characters
MaxHexLen == 6
\* images have at most MaxPixels pixels
MaxPixels == 4

----------------------------------------------------------------------------
(* Python numbers: exact rationals [n, d] in lowest terms, d > 0           *)

Abs(i) == IF i < 0 THEN -i ELSE i

RECURSIVE GCD(_, _)
GCD(a, b) == IF b = 0 THEN a ELSE GCD(b, a % b)

Rat(n, d) ==
    LET g == GCD(Abs(n), d)
    IN  [n |-> n \div g, d |-> d \div g]

Q(i) == [n |-> i, d |-> 1]

RAdd(a, b) == Rat(a.n * b.d + b.n * a.d, a.d * b.d)

RSub(a, b) == Rat(a.n * b.d - b.n * a.d, a.d * b.d)

\* a / b for b # 0
RDiv(a, b) ==
    IF b.n > 0 THEN Rat(a.n * b.d, a.d * b.n)
               ELSE Rat(-(a.n * b.d), a.d * (-b.n))

RMul(a, b) == Rat(a.n * b.n, a.d * b.d)

RAbs(a) == [n |-> Abs(a.n), d |-> a.d]

Le(a, b) == a.n * b.d <= b.n * a.d

Lt(a, b) == a.n * b.d < b.n * a.d

RMax(a, b) == IF Lt(a, b) THEN b ELSE a

RMin(a, b) == IF Lt(b, a) THEN b ELSE a

\* Python's a % m for an integer m > 0: the result is in [0, m)
RMod(a, m) == Rat(a.n % (m * a.d), a.d)

\* rounding with halves rounded up instead of to even
RoundHalfUp(a) == (2 * a.n + a.d) \div (2 * a.d)

\* Python's round(x): nearest integer, halves to the even neighbour
PyRound(a) ==
    LET fl   == a.n \div a.d
        rem2 == 2 * (a.n - fl * a.d)
    IN  IF rem2 < a.d THEN fl
        ELSE IF rem2 > a.d THEN fl + 1
        ELSE IF fl % 2 = 0 THEN fl ELSE fl + 1

\* outcome of a call: a returned value or a raised exception
Return(v) == [kind |-> "return", val |-> v]

Raise(e) == [kind |-> "raise", val |-> e]

----------------------------------------------------------------------------
(* Constant tables                                                         *)

DURATION_RANGES ==
    (1 :> <<1, 4>>) @@ (2 :> <<1, 3>>) @@ (3 :> <<1, 3>>) @@ (4 :> <<1, 3>>) @@
    (5 :> <<1, 3>>) @@ (6 :> <<1, 3>>) @@ (7 :> <<2, 5>>)

STAGE_INFO ==
    (1 :> "Green - Entirely green, firm and starchy. High in resistant starch.") @@
    (2 :> "Light Green - Breaking toward yellow. Still firm and less sweet.") @@
    (3 :> "Yellowish - Minimal green. Begins to develop sweetness.") @@
    (4 :> "More Yellow - Mostly yellow with some green. Starches converting to sugars.") @@
    (5 :> "Yellow with Green Tips - Ideal for retail. Peak for purchase.") @@
    (6 :> "Yellow - Peak eating quality. Aromatic and sweet.") @@
    (7 :> "Yellow with Brown Flecks - Overripe. Best for baking or smoothies.")

\* the module's global names DURATION_RANGES and STAGE_INFO after import
InitialGlobals ==
    [DURATION_RANGES |-> DURATION_RANGES, STAGE_INFO |-> STAGE_INFO]

\* the hue ranges of calculate_stage_confidence with stage 5 collapsed to a point
stage_hue_ranges_degenerate ==
    (1 :> <<60, 120>>) @@ (2 :> <<50, 60>>) @@ (3 :> <<40, 50>>) @@
    (4 :> <<30, 40>>) @@ (5 :> <<25, 25>>) @@ (6 :> <<20, 25>>) @@
    (7 :> <<0, 20>>)

\* HUE_RANGES of utils/constants.py
HUE_RANGES ==
    (1 :> <<60, 120>>) @@ (2 :> <<50, 60>>) @@ (3 :> <<40, 50>>) @@
    (4 :> <<30, 40>>) @@ (5 :> <<25, 30>>) @@ (6 :> <<20, 25>>) @@
    (7 :> <<0, 20>>)

\* the hue ranges with stages 2 and 3 meeting at 45 instead of 50
stage_hue_ranges_boundary_45 ==
    (1 :> <<60, 120>>) @@ (2 :> <<45, 60>>) @@ (3 :> <<40, 45>>) @@
    (4 :> <<30, 40>>) @@ (5 :> <<25, 30>>) @@ (6 :> <<20, 25>>) @@
    (7 :> <<0, 20>>)

\* local table of calculate_stage_confidence
stage_hue_ranges ==
    (1 :> <<60, 120>>) @@ (2 :> <<50, 60>>) @@ (3 :> <<40, 50>>) @@
    (4 :> <<30, 40>>) @@ (5 :> <<25, 30>>) @@ (6 :> <<20, 25>>) @@
    (7 :> <<0, 20>>)

----------------------------------------------------------------------------
(* estimate_days_until_peak                                                *)

\* DURATION_RANGES.get(current_stage, (0, 0)): a lookup that never raises
duration_get(current_stage) ==
    IF current_stage \in DOMAIN globals.DURATION_RANGES
    THEN Return(globals.DURATION_RANGES[current_stage])
    ELSE Return(<<0, 0>>)

\* DURATION_RANGES[current_stage]: KeyError when the key is absent
duration_lookup(current_stage) ==
    IF current_stage \in DOMAIN globals.DURATION_RANGES
    THEN Return(globals.DURATION_RANGES[current_stage])
    ELSE Raise("KeyError")

\* (min_days - max_days) / 2
avg_days_minus(min_days, max_days) == Rat(min_days - max_days, 2)

\* min_days + max_days, the division by 2 forgotten
avg_days_nohalf(min_days, max_days) == Q(min_days + max_days)

\* avg_days = (min_days + max_days) / 2
avg_days(min_days, max_days) == Rat(min_days + max_days, 2)

\* the loop "for current_stage in range(stage, 6)" from current_stage on,
\* total_days being the sum so far, and the final round(total_days)
RECURSIVE days_loop(_, _)
days_loop(current_stage, total_days) ==
    IF current_stage >= 6 THEN Return(PyRound(total_days))
    ELSE LET d == duration_lookup(current_stage)
         IN  IF d.kind = "raise" THEN d
             ELSE days_loop(current_stage + 1,
                            RAdd(total_days, avg_days(d.val[1], d.val[2])))

estimate_days_until_peak(s) ==
    IF s >= 6 THEN Return(0) ELSE days_loop(s, Q(0))

----------------------------------------------------------------------------
(* hue_to_stage                                                            *)

\* hue_to_stage answering 0 ("unknown") for a hue no clause matches
hue_to_stage_zero_default(h) ==
    LET x == RMod(h, 360)
    IN  IF Le(Q(60), x) /\ Le(x, Q(120)) THEN 1
        ELSE IF Le(Q(50), x) /\ Lt(x, Q(60)) THEN 2
        ELSE IF Le(Q(40), x) /\ Lt(x, Q(50)) THEN 3
        ELSE IF Le(Q(30), x) /\ Lt(x, Q(40)) THEN 4
        ELSE IF Le(Q(25), x) /\ Lt(x, Q(30)) THEN 5
        ELSE IF Le(Q(20), x) /\ Lt(x, Q(25)) THEN 6
        ELSE IF Le(Q(0), x) /\ Lt(x, Q(20)) THEN 7
        ELSE 0

\* hue_to_stage without the normalisation "hue = hue % 360"
hue_to_stage_unnormalized(h) ==
    LET x == h
    IN  IF Le(Q(60), x) /\ Le(x, Q(120)) THEN 1
        ELSE IF Le(Q(50), x) /\ Lt(x, Q(60)) THEN 2
        ELSE IF Le(Q(40), x) /\ Lt(x, Q(50)) THEN 3
        ELSE IF Le(Q(30), x) /\ Lt(x, Q(40)) THEN 4
        ELSE IF Le(Q(25), x) /\ Lt(x, Q(30)) THEN 5
        ELSE IF Le(Q(20), x) /\ Lt(x, Q(25)) THEN 6
        ELSE IF Le(Q(0), x) /\ Lt(x, Q(20)) THEN 7
        ELSE 3

hue_to_stage(h) ==
    LET x == RMod(h, 360)
    IN  IF Le(Q(60), x) /\ Le(x, Q(120)) THEN 1
        ELSE IF Le(Q(50), x) /\ Lt(x, Q(60)) THEN 2
        ELSE IF Le(Q(40), x) /\ Lt(x, Q(50)) THEN 3
        ELSE IF Le(Q(30), x) /\ Lt(x, Q(40)) THEN 4
        ELSE IF Le(Q(25), x) /\ Lt(x, Q(30)) THEN 5
        ELSE IF Le(Q(20), x) /\ Lt(x, Q(25)) THEN 6
        ELSE IF Le(Q(0), x) /\ Lt(x, Q(20)) THEN 7
        ELSE 3

----------------------------------------------------------------------------
(* calculate_stage_confidence                                              *)

\* calculate_stage_confidence dividing by range_width instead of range_width / 2
calculate_stage_confidence_full_width(h, s) ==
    IF s \notin DOMAIN stage_hue_ranges THEN Return(Rat(1, 2))
    ELSE LET min_hue    == stage_hue_ranges[s][1]
             max_hue    == stage_hue_ranges[s][2]
             center_hue == Rat(min_hue + max_hue, 2)
             range_width == max_hue - min_hue
             distance_from_center == RAbs(RSub(h, center_hue))
         IN  IF range_width = 0 THEN Raise("ZeroDivisionError")
             ELSE LET confidence ==
                          RMax(Rat(3, 10),
                               RSub(Q(1), RDiv(distance_from_center, Q(range_width))))
                  IN  Return(RMin(Q(1), confidence))

calculate_stage_confidence(h, s) ==
    IF s \notin DOMAIN stage_hue_ranges THEN Return(Rat(1, 2))
    ELSE LET min_hue    == stage_hue_ranges[s][1]
             max_hue    == stage_hue_ranges[s][2]
             center_hue == Rat(min_hue + max_hue, 2)
             range_width == max_hue - min_hue
             distance_from_center == RAbs(RSub(h, center_hue))
             half       == Rat(range_width, 2)
         IN  IF half.n = 0 THEN Raise("ZeroDivisionError")
             ELSE LET confidence ==
                          RMax(Rat(3, 10),
                               RSub(Q(1), RDiv(distance_from_center, half)))
                  IN  Return(RMin(Q(1), confidence))

----------------------------------------------------------------------------
(* hex_to_hue                                                              *)

\* the value int(c, 16) of each character of '0123456789ABCDEFabcdef'
HexValue ==
    ("0" :> 0) @@ ("1" :> 1) @@ ("2" :> 2) @@ ("3" :> 3) @@ ("4" :> 4) @@
    ("5" :> 5) @@ ("6" :> 6) @@ ("7" :> 7) @@ ("8" :> 8) @@ ("9" :> 9) @@
    ("A" :> 10) @@ ("B" :> 11) @@ ("C" :> 12) @@ ("D" :> 13) @@ ("E" :> 14) @@
    ("F" :> 15) @@ ("a" :> 10) @@ ("b" :> 11) @@ ("c" :> 12) @@ ("d" :> 13) @@
    ("e" :> 14) @@ ("f" :> 15)

\* str.lstrip('#'): every leading '#' is removed
RECURSIVE lstrip_hash(_)
lstrip_hash(str) ==
    IF str # <<>> /\ Head(str) = "#" THEN lstrip_hash(Tail(str)) ELSE str

\* the three characters repeated as a block: 'abc' -> 'abcabc'
expand3_block(str) == str \o str

\* ''.join([c*2 for c in hex_color]): 'abc' -> 'aabbcc'
expand3(str) == <<str[1], str[1], str[2], str[2], str[3], str[3]>>

\* all(c in '0123456789ABCDEFabcdef' for c in hex_color)
all_hex(str) == \A i \in 1..Len(str) : str[i] \in DOMAIN HexValue

\* int(two characters, 16) / 255.0
channel(c1, c2) == Rat(16 * HexValue[c1] + HexValue[c2], 255)

\* colorsys.rgb_to_hsv without the final "% 1.0"
rgb_to_hsv_nomod(r, g, b) ==
    LET maxc   == RMax(RMax(r, g), b)
        minc   == RMin(RMin(r, g), b)
        rangec == RSub(maxc, minc)
    IN  IF minc = maxc THEN <<Q(0), Q(0), maxc>>
        ELSE LET rc == RDiv(RSub(maxc, r), rangec)
                 gc == RDiv(RSub(maxc, g), rangec)
                 bc == RDiv(RSub(maxc, b), rangec)
                 h  == IF r = maxc THEN RSub(bc, gc)
                       ELSE IF g = maxc THEN RSub(RAdd(Q(2), rc), bc)
                       ELSE RSub(RAdd(Q(4), gc), rc)
             IN  <<RDiv(h, Q(6)), RDiv(rangec, maxc), maxc>>

\* colorsys.rgb_to_hsv(r, g, b) of the standard library: <<h, s, v>>
rgb_to_hsv(r, g, b) ==
    LET maxc   == RMax(RMax(r, g), b)
        minc   == RMin(RMin(r, g), b)
        rangec == RSub(maxc, minc)
    IN  IF minc = maxc THEN <<Q(0), Q(0), maxc>>
        ELSE LET rc == RDiv(RSub(maxc, r), rangec)
                 gc == RDiv(RSub(maxc, g), rangec)
                 bc == RDiv(RSub(maxc, b), rangec)
                 h  == IF r = maxc THEN RSub(bc, gc)
                       ELSE IF g = maxc THEN RSub(RAdd(Q(2), rc), bc)
                       ELSE RSub(RAdd(Q(4), gc), rc)
             IN  <<RMod(RDiv(h, Q(6)), 1), RDiv(rangec, maxc), maxc>>

\* hex_to_hue on a string (a sequence of characters)
hex_to_hue(str) ==
    IF str = <<>> THEN Raise("ValueError")
    ELSE LET stripped == lstrip_hash(str)
         IN  IF Len(stripped) \notin {3, 6} THEN Raise("ValueError")
             ELSE LET six == IF Len(stripped) = 3 THEN expand3(stripped) ELSE stripped
                  IN  IF ~all_hex(six) THEN Raise("ValueError")
                      ELSE LET r == channel(six[1], six[2])
                               g == channel(six[3], six[4])
                               b == channel(six[5], six[6])
                           IN  IF ~(\A val \in {r, g, b} : Le(Q(0), val) /\ Le(val, Q(1)))
                               THEN Raise("ValueError")
                               ELSE Return(RMul(rgb_to_hsv(r, g, b)[1], Q(360)))

----------------------------------------------------------------------------
(* extract_dominant_color                                                  *)
(*                                                                         *)
(* An image argument is described by what the imaging library does with    *)
(* it: bytes ("None", "empty" or "data"; "unreadable" is a file whose      *)
(* read() raises), decodable (Image.open succeeds), mode (of the opened    *)
(* image), fail/exc (the step after decoding that raises, and the          *)
(* exception type), pixels (the H channel, 0..255, of the HSV pixels in    *)
(* getdata() order; every HSV pixel is a 3-tuple).                         *)

\* round(hue / 5) * 5
round5(h) == PyRound(Rat(h, 5)) * 5

\* the loop filling hue_counts: keys in insertion order, and the counts
RECURSIVE hue_counts_loop(_, _, _)
hue_counts_loop(hue_values, keys, counts) ==
    IF hue_values = <<>> THEN [keys |-> keys, counts |-> counts]
    ELSE LET rounded_hue == round5(Head(hue_values))
         IN  IF rounded_hue \in DOMAIN counts
             THEN hue_counts_loop(Tail(hue_values), keys,
                                  [counts EXCEPT ![rounded_hue] = @ + 1])
             ELSE hue_counts_loop(Tail(hue_values), Append(keys, rounded_hue),
                                  counts @@ (rounded_hue :> 1))

\* a maximum search keeping the last key of maximal count
RECURSIVE max_by_count_last(_, _, _)
max_by_count_last(keys, counts, best) ==
    IF keys = <<>> THEN best
    ELSE max_by_count_last(Tail(keys), counts,
                           IF counts[Head(keys)] >= counts[best] THEN Head(keys) ELSE best)

\* max(hue_counts, key=hue_counts.get) from the key after best on: the first
\* key of maximal count in iteration (insertion) order
RECURSIVE max_by_count(_, _, _)
max_by_count(keys, counts, best) ==
    IF keys = <<>> THEN best
    ELSE max_by_count(Tail(keys), counts,
                      IF counts[Head(keys)] > counts[best] THEN Head(keys) ELSE best)

\* the hue scale of OpenCV (0..179): dominant_hue * 2
to_degrees_times2(dominant_hue) == Q(dominant_hue * 2)

\* (dominant_hue / 255) * 360
to_degrees(dominant_hue) == RMul(Rat(dominant_hue, 255), Q(360))

\* the body of the try block: Return(hue) or Raise(exception type)
extract_body(img) ==
    IF img.bytes = "None" THEN Raise("TypeError")
    ELSE IF img.bytes = "empty" THEN Raise("ValueError")
    ELSE IF ~img.decodable THEN Raise("ValueError")
    ELSE IF img.mode # "RGB" /\ img.fail = "convert_rgb" THEN Raise(img.exc)
    ELSE IF img.fail = "convert_hsv" THEN Raise("ValueError")
    ELSE IF img.fail = "getdata" THEN Raise(img.exc)
    ELSE IF img.pixels = <<>> THEN Raise("ValueError")
    ELSE LET hue_values == img.pixels
         IN  IF hue_values = <<>> THEN Raise("ValueError")
             ELSE LET hc == hue_counts_loop(hue_values, <<>>, <<>>)
                  IN  IF hc.keys = <<>> THEN Raise("ValueError")
                      ELSE Return(to_degrees(
                               max_by_count(Tail(hc.keys), hc.counts, Head(hc.keys))))

\* handlers that answer every exception with the default hue
extract_handlers_swallow(outcome) ==
    IF outcome.kind = "raise" THEN Return(Rat(60, 1)) ELSE outcome

\* handlers that let every exception propagate
extract_handlers_reraise(outcome) == outcome

\* except ValueError: raise / except Exception: return 60.0
extract_handlers(outcome) ==
    IF outcome.kind = "raise" /\ outcome.val = "ValueError" THEN outcome
    ELSE IF outcome.kind = "raise" THEN Return(Rat(60, 1))
    ELSE outcome

extract_dominant_color(img) == extract_handlers(extract_body(img))

----------------------------------------------------------------------------
(* detect_banana_ripeness                                                  *)

\* the local table of get_stage_recommendations
recommendations ==
    (1 :> <<"Wait 3-4 days for optimal ripeness", "Store at room temperature",
            "Avoid refrigeration at this stage",
            "Perfect for cooking if you prefer less sweet bananas">>) @@
    (2 :> <<"Wait 2-3 days for better sweetness", "Store at room temperature",
            "Good for cooking or eating if you prefer less sweet">>) @@
    (3 :> <<"Wait 1-2 days for peak ripeness",
            "Good for eating now if you prefer less sweet", "Perfect for cooking">>) @@
    (4 :> <<"Wait 1 day for optimal sweetness", "Good for eating now",
            "Great for smoothies">>) @@
    (5 :> <<"Perfect for purchase and eating", "Peak retail stage",
            "Good for 1-2 days">>) @@
    (6 :> <<"Peak eating quality!", "Best for fresh consumption",
            "Use within 1-2 days", "Perfect for smoothies">>) @@
    (7 :> <<"Excellent for baking banana bread", "Perfect for smoothies and shakes",
            "Great for natural sweetener in baking", "Freeze for future use">>)

\* recommendations.get(stage, ['Unable to provide recommendations'])
get_stage_recommendations(s) ==
    IF s \in DOMAIN recommendations THEN recommendations[s]
    ELSE <<"Unable to provide recommendations">>

\* the report of the except branch; error is the exception's type
unknown_report(e) ==
    [stage |-> 0, level |-> <<"Unknown">>,
     description |-> "Unable to analyze the image",
     dominant_hue |-> Q(0), days_until_peak |-> 0, confidence |-> Q(0),
     recommendations |-> <<"Please try with a clearer image">>,
     error |-> e]

\* the body of the try block: Return(report) or Raise(exception type)
detect_body(image_file) ==
    IF image_file.bytes = "unreadable" THEN Raise("OSError")
    ELSE LET dominant_hue == extract_dominant_color(image_file)
         IN  IF dominant_hue.kind = "raise" THEN dominant_hue
             ELSE LET s == hue_to_stage(dominant_hue.val)
                      stage_description ==
                          IF s \in DOMAIN globals.STAGE_INFO
                          THEN globals.STAGE_INFO[s] ELSE "Unknown stage"
                      days_until_peak == estimate_days_until_peak(s)
                      confidence == calculate_stage_confidence(dominant_hue.val, s)
                  IN  IF days_until_peak.kind = "raise" THEN days_until_peak
                      ELSE IF confidence.kind = "raise" THEN confidence
                      ELSE Return([stage |-> s, level |-> <<"Stage", s>>,
                                   description |-> stage_description,
                                   dominant_hue |-> dominant_hue.val,
                                   days_until_peak |-> days_until_peak.val,
                                   confidence |-> confidence.val,
                                   recommendations |-> get_stage_recommendations(s)])

\* detect_banana_ripeness catching only ValueError
detect_banana_ripeness_value_error_only(image_file) ==
    LET outcome == detect_body(image_file)
    IN  IF outcome.kind = "raise" /\ outcome.val = "ValueError"
        THEN Return(unknown_report(outcome.val))
        ELSE outcome

\* try: ... except Exception as e: return the unknown report
detect_banana_ripeness(image_file) ==
    LET outcome == detect_body(image_file)
    IN  IF outcome.kind = "raise" THEN Return(unknown_report(outcome.val))
        ELSE outcome

----------------------------------------------------------------------------
(* The caller: one call at a time                                          *)

Hues == UNION { { Rat(n, d) : n \in (-(MaxHue * d))..(MaxHue * d) } : d \in 1..HueDenMax }

Stages == (1 - StageSpan)..(7 + StageSpan)

\* characters of the strings passed as colours: three hex digits, the prefix
\* character and a character that is no hex digit
HexAlphabet == {"#", "0", "8", "F", "G"}

HexStrings == UNION { [1..n -> HexAlphabet] : n \in 0..MaxHexLen }

NoResult == [kind |-> "none", val |-> 0]

\* 8-bit hue samples of the pixels of multi-pixel images
HueSamples == {0, 2, 3, 7, 42, 128, 253}

PixelSeqs ==
    UNION { [1..n -> HueSamples] : n \in 0..MaxPixels } \cup { <<h>> : h \in 0..255 }

Img(b, dec, m, f, x, px) ==
    [bytes |-> b, decodable |-> dec, mode |-> m, fail |-> f, exc |-> x, pixels |-> px]

NoImage == Img("-", FALSE, "-", "none", "-", <<>>)

\* images opened from a non-empty buffer
DecodedImages ==
    { Img("data", TRUE, m, "none", "-", px) : m \in {"RGB", "RGBA"}, px \in PixelSeqs }
    \cup { Img("data", TRUE, "RGBA", "convert_rgb", x, <<>>) : x \in {"OSError", "ValueError"} }
    \cup { Img("data", TRUE, m, "convert_hsv", x, <<>>) :
               m \in {"RGB", "RGBA"}, x \in {"OSError", "ValueError"} }
    \cup { Img("data", TRUE, m, "getdata", x, <<>>) :
               m \in {"RGB", "RGBA"}, x \in {"OSError", "ValueError"} }

\* byte buffers: empty, not an image, or an image
Buffers ==
    { Img("empty", FALSE, "-", "none", "-", <<>>),
      Img("data", FALSE, "-", "none", "-", <<>>) } \cup DecodedImages

\* arguments of extract_dominant_color: a byte buffer, or None
ImageArgs == Buffers \cup { Img("None", FALSE, "-", "none", "-", <<>>) }

----------------------------------------------------------------------------
(* The web boundary (app.py): requests and their validation                *)

\* is_valid_hex_color accepting only the 6-digit form
is_valid_hex_color_six_only(str) ==
    LET stripped == lstrip_hash(str)
    IN  Len(stripped) = 6 /\ all_hex(stripped)

\* is_valid_hex_color on a string (a sequence of characters)
is_valid_hex_color(str) ==
    LET stripped == lstrip_hash(str)
    IN  Len(stripped) \in {3, 6} /\ all_hex(stripped)

\* str.lower() on the letters of the file names below
LowerCase ==
    ("B" :> "b") @@ ("G" :> "g") @@ ("J" :> "j") @@ ("N" :> "n") @@ ("P" :> "p")

lower(str) ==
    [i \in 1..Len(str) |-> IF str[i] \in DOMAIN LowerCase THEN LowerCase[str[i]] ELSE str[i]]

\* str.endswith(suffixes) for a tuple of suffixes
endswith(str, suffixes) ==
    \E suffix \in suffixes :
        /\ Len(suffix) <= Len(str)
        /\ SubSeq(str, Len(str) - Len(suffix) + 1, Len(str)) = suffix

allowed_extensions ==
    { <<".", "p", "n", "g">>, <<".", "j", "p", "g">>, <<".", "j", "p", "e", "g">>,
      <<".", "g", "i", "f">>, <<".", "b", "m", "p">> }

\* max_size = 10 * 1024 * 1024  (10MB)
max_size == 10 * 1024 * 1024

\* names of uploaded files: none, allowed ones in both cases, and others
Filenames ==
    { <<>>,
      <<"b", ".", "p", "n", "g">>, <<"B", ".", "P", "N", "G">>,
      <<"b", ".", "j", "p", "g">>, <<"b", ".", "J", "p", "e", "g">>,
      <<"b", ".", "g", "i", "f">>, <<"b", ".", "b", "m", "p">>,
      <<"b", ".", "e", "x", "e">>, <<"p", "n", "g">>,
      <<"b", ".", "p", "n", "g", ".", "e", "x", "e">> }

\* what file.read() gives for an upload: a buffer with at most one pixel, or
\* nothing because read() raises
UploadContents ==
    { b \in Buffers : Len(b.pixels) = 0 \/ b.pixels \in { <<h>> : h \in HueSamples } }
    \cup { Img("unreadable", FALSE, "-", "none", "-", <<>>) }

\* file.tell() at the end of the file: 0 exactly for the empty buffer
FileSizes(content) ==
    IF content.bytes = "empty" THEN {0} ELSE {1, max_size, max_size + 1}

NoFile == [present |-> FALSE, filename |-> <<>>, size |-> 0, content |-> NoImage]

\* request.files['image']
UploadedFiles ==
    { [present |-> TRUE, filename |-> f, size |-> sz, content |-> c] :
          f \in Filenames, sz \in {0, 1, max_size, max_size + 1}, c \in UploadContents }

Uploads == { u \in UploadedFiles : u.size \in FileSizes(u.content) }

NoColor == [present |-> FALSE, isstr |-> TRUE, chars |-> <<>>]

\* the 'color' value of a form or of a JSON body: a string of at most four
\* characters or one of two longer ones, or (JSON) a number
ColorValues ==
    { [present |-> TRUE, isstr |-> TRUE, chars |-> str] :
          str \in { x \in HexStrings : Len(x) <= 4 }
                  \cup { <<"F", "F", "8", "8", "0", "0">>, <<"#", "0", "0", "F", "F", "0", "0">> } }
    \cup { [present |-> TRUE, isstr |-> FALSE, chars |-> <<>>] }

ClassifyRoutes == {"/classify", "/api/classify"}

DetectRoutes == {"/detect", "/api/detect"}

\* the inputs of a request: an upload, a colour, an upload without a file
\* name together with a colour, or nothing
RequestInputs ==
    { [image |-> u, color |-> NoColor] : u \in Uploads \cup {NoFile} }
    \cup { [image |-> u, color |-> c] :
               u \in {NoFile, [present |-> TRUE, filename |-> <<>>, size |-> 1,
                               content |-> Img("data", FALSE, "-", "none", "-", <<>>)]},
               c \in ColorValues }

NoResponse == [status |-> 0, error |-> "", result |-> <<>>]

\* no request in progress
NoRequest ==
    [route |-> "none", pc |-> "idle", image |-> NoFile, color |-> NoColor,
     trace |-> <<>>, hue |-> Q(0), stage |-> 0, stage_info |-> "",
     response |-> NoResponse]

\* render_template('result.html', error=...) on /classify (status 200) or
\* jsonify({'error': ...}), status on /api/classify
ErrorResponse(route, status, error) ==
    [status |-> IF route = "/classify" THEN 200 ELSE status,
     error |-> error, result |-> <<>>]

Init ==
    /\ fn = "none"
    /\ hue = Q(0)
    /\ stage = 0
    /\ hex_color = <<>>
    /\ image = NoImage
    /\ result = NoResult
    /\ globals = InitialGlobals
    /\ request = NoRequest

CallHueToStage ==
    /\ fn = "none" /\ request.route = "none"
    /\ \E h \in Hues :
        /\ fn' = "hue_to_stage"
        /\ hue' = h
        /\ result' = Return(hue_to_stage(h))
    /\ UNCHANGED <<stage, hex_color, image, globals, request>>

\* estimate_days_until_peak taking the entry out of the table it reads
\* (DURATION_RANGES.pop(stage) for DURATION_RANGES[stage])
CallEstimateDaysUntilPeak_pop ==
    /\ fn = "none" /\ request.route = "none"
    /\ \E s \in Stages :
        /\ fn' = "estimate_days_until_peak"
        /\ stage' = s
        /\ result' = estimate_days_until_peak(s)
        /\ globals' = [globals EXCEPT !.DURATION_RANGES =
                           [k \in DOMAIN globals.DURATION_RANGES \ {s} |->
                               globals.DURATION_RANGES[k]]]
    /\ UNCHANGED <<hue, hex_color, image, request>>

CallEstimateDaysUntilPeak ==
    /\ fn = "none" /\ request.route = "none"
    /\ \E s \in Stages :
        /\ fn' = "estimate_days_until_peak"
        /\ stage' = s
        /\ result' = estimate_days_until_peak(s)
    /\ UNCHANGED <<hue, hex_color, image, globals, request>>

CallCalculateStageConfidence ==
    /\ fn = "none" /\ request.route = "none"
    /\ \E h \in Hues, s \in Stages :
        /\ fn' = "calculate_stage_confidence"
        /\ hue' = h
        /\ stage' = s
        /\ result' = calculate_stage_confidence(h, s)
    /\ UNCHANGED <<hex_color, image, globals, request>>

CallHexToHue ==
    /\ fn = "none" /\ request.route = "none"
    /\ \E str \in HexStrings :
        /\ fn' = "hex_to_hue"
        /\ hex_color' = str
        /\ result' = hex_to_hue(str)
    /\ UNCHANGED <<hue, stage, image, globals, request>>

CallExtractDominantColor ==
    /\ fn = "none" /\ request.route = "none"
    /\ \E img \in ImageArgs :
        /\ fn' = "extract_dominant_color"
        /\ image' = img
        /\ result' = extract_dominant_color(img)
    /\ UNCHANGED <<hue, stage, hex_color, globals, request>>

\* files uploaded to detect_banana_ripeness: read() gives a byte buffer or raises
ImageFiles == Buffers \cup { Img("unreadable", FALSE, "-", "none", "-", <<>>) }

CallDetectBananaRipeness ==
    /\ fn = "none" /\ request.route = "none"
    /\ \E image_file \in ImageFiles :
        /\ fn' = "detect_banana_ripeness"
        /\ image' = image_file
        /\ result' = detect_banana_ripeness(image_file)
    /\ UNCHANGED <<hue, stage, hex_color, globals, request>>

----------------------------------------------------------------------------
(* The web boundary (app.py): the handlers, one action per step            *)

\* the handler moves on to position pc, the steps named being done
Goto(pc, steps) == [request EXCEPT !.pc = pc, !.trace = @ \o steps]

\* the handler returns response, the steps named being done
Done(response, steps) ==
    [request EXCEPT !.pc = "done", !.response = response, !.trace = @ \o steps]

\* round(hue, 1)
round1(h) == Rat(PyRound(RMul(h, Q(10))), 10)

\* the core functions detect_banana_ripeness(image_file) invokes, itself first:
\* extract_dominant_color once image_file.read() has returned
detect_calls(image_file) ==
    IF image_file.bytes = "unreadable" THEN <<"detect_banana_ripeness">>
    ELSE <<"detect_banana_ripeness", "extract_dominant_color">>

\* a POST request arrives on one of the four routes
Receive ==
    /\ fn = "none" /\ request.route = "none"
    /\ \E route \in ClassifyRoutes \cup DetectRoutes, input \in RequestInputs :
        /\ route = "/classify" => input.color.isstr
        /\ request' = [NoRequest EXCEPT !.route = route, !.pc = "start",
                                        !.image = input.image, !.color = input.color]
    /\ UNCHANGED <<fn, hue, stage, hex_color, image, result, globals>>

\* classify_banana / api_classify_banana: which input is provided
ClassifyInput ==
    /\ request.route \in ClassifyRoutes /\ request.pc = "start"
    /\ request' =
        IF request.image.present /\ request.image.filename # <<>>
        THEN Goto("check_extension", <<>>)
        ELSE IF request.color.present
                /\ ~(request.color.isstr /\ request.color.chars = <<>>)
        THEN Goto("check_hex", <<>>)
        ELSE Done(ErrorResponse(request.route, 400,
                      "Please provide either an image file or a hex color value"), <<>>)
    /\ UNCHANGED <<fn, hue, stage, hex_color, image, result, globals>>

\* "Validate file type"
CheckExtension ==
    /\ request.route \in ClassifyRoutes /\ request.pc = "check_extension"
    /\ request' =
        IF ~endswith(lower(request.image.filename), allowed_extensions)
        THEN Done(ErrorResponse(request.route, 400,
                      "Please upload a valid image file (PNG, JPG, JPEG, GIF, or BMP)"), <<>>)
        ELSE Goto("check_size", <<"extension">>)
    /\ UNCHANGED <<fn, hue, stage, hex_color, image, result, globals>>

\* "Validate file size (max 10MB)"
CheckSize ==
    /\ request.route \in ClassifyRoutes /\ request.pc = "check_size"
    /\ LET file_size == request.image.size
       IN  request' =
            IF file_size > max_size
            THEN Done(ErrorResponse(request.route, 400,
                          "Image file is too large. Please select an image smaller than 10MB."),
                      <<>>)
            ELSE Goto("read", <<"size">>)
    /\ UNCHANGED <<fn, hue, stage, hex_color, image, result, globals>>

\* "Read image data"
ReadImage ==
    /\ request.route \in ClassifyRoutes /\ request.pc = "read"
    /\ request' =
        IF request.image.content.bytes = "unreadable"
        THEN Done(ErrorResponse(request.route, 500,
                      "Error reading image file. Please try again."), <<>>)
        ELSE Goto("extract", <<>>)
    /\ UNCHANGED <<fn, hue, stage, hex_color, image, result, globals>>

\* "Extract dominant hue from image": hue = extract_dominant_color(image_data)
ExtractHue ==
    /\ request.route \in ClassifyRoutes /\ request.pc = "extract"
    /\ LET image_data == request.image.content
           outcome == extract_dominant_color(image_data)
       IN  /\ fn' = "extract_dominant_color"
           /\ image' = image_data
           /\ result' = outcome
           /\ request' =
               IF outcome.kind = "raise"
               THEN Done(ErrorResponse(request.route, 500,
                             "Error analyzing image colors. Please try a different image."),
                         <<"extract_dominant_color">>)
               ELSE [Goto("validate_hue", <<"extract_dominant_color">>)
                         EXCEPT !.hue = outcome.val]
    /\ UNCHANGED <<hue, stage, hex_color, globals>>

\* "Validate hex color format": is_valid_hex_color(hex_color), False for a
\* value that is no string
CheckHexFormat ==
    /\ request.route \in ClassifyRoutes /\ request.pc = "check_hex"
    /\ request' =
        IF ~(request.color.isstr /\ is_valid_hex_color(request.color.chars))
        THEN Done(ErrorResponse(request.route, 400,
                      "Please provide a valid hex color (e.g., #FF0000 or FF0000)"), <<>>)
        ELSE Goto("convert_hex", <<"hex_format">>)
    /\ UNCHANGED <<fn, hue, stage, hex_color, image, result, globals>>

\* "Convert hex color to hue": hue = hex_to_hue(hex_color)
ConvertHex ==
    /\ request.route \in ClassifyRoutes /\ request.pc = "convert_hex"
    /\ LET outcome == hex_to_hue(request.color.chars)
       IN  /\ fn' = "hex_to_hue"
           /\ hex_color' = request.color.chars
           /\ result' = outcome
           /\ request' =
               IF outcome.kind = "raise"
               THEN Done(ErrorResponse(request.route, 500,
                             "Error processing color value. Please try again."),
                         <<"hex_to_hue">>)
               ELSE [Goto("validate_hue", <<"hex_to_hue">>) EXCEPT !.hue = outcome.val]
    /\ UNCHANGED <<hue, stage, image, globals>>

\* "Validate hue value": hue < 0 or hue > 360
ValidateHue ==
    /\ request.route \in ClassifyRoutes /\ request.pc = "validate_hue"
    /\ request' =
        IF ~(Le(Q(0), request.hue) /\ Le(request.hue, Q(360)))
        THEN Done(ErrorResponse(request.route, 500,
                      "Invalid color analysis result. Please try again."), <<>>)
        ELSE Goto("classify", <<>>)
    /\ UNCHANGED <<fn, hue, stage, hex_color, image, result, globals>>

\* stage = hue_to_stage(hue); stage_info = STAGE_INFO.get(stage, "Unknown stage")
ClassifyStage ==
    /\ request.route \in ClassifyRoutes /\ request.pc = "classify"
    /\ LET s == hue_to_stage(request.hue)
       IN  /\ fn' = "hue_to_stage"
           /\ hue' = request.hue
           /\ result' = Return(s)
           /\ request' =
               [Goto("estimate", <<"hue_to_stage">>)
                    EXCEPT !.stage = s,
                           !.stage_info = IF s \in DOMAIN globals.STAGE_INFO
                                          THEN globals.STAGE_INFO[s]
                                          ELSE "Unknown stage"]
    /\ stage' = 0
    /\ hex_color' = <<>>
    /\ image' = NoImage
    /\ UNCHANGED globals

\* days_until_peak = estimate_days_until_peak(stage), then "Prepare result data"
EstimateDays ==
    /\ request.route \in ClassifyRoutes /\ request.pc = "estimate"
    /\ LET outcome == estimate_days_until_peak(request.stage)
       IN  /\ fn' = "estimate_days_until_peak"
           /\ stage' = request.stage
           /\ result' = outcome
           /\ request' =
               IF outcome.kind = "raise"
               THEN Done(ErrorResponse(request.route, 500,
                             "Error in classification process. Please try again."),
                         <<"estimate_days_until_peak">>)
               ELSE Done([status |-> 200, error |-> "",
                          result |-> <<[stage |-> request.stage,
                                        stage_info |-> request.stage_info,
                                        days_until_peak |-> outcome.val,
                                        hue |-> round1(request.hue),
                                        success |-> TRUE]>>],
                         <<"estimate_days_until_peak">>)
    /\ hue' = Q(0)
    /\ UNCHANGED <<hex_color, image, globals>>

\* detect_ripeness / api_detect_ripeness: is an image file present and selected
DetectInput ==
    /\ request.route \in DetectRoutes /\ request.pc = "start"
    /\ request' =
        IF ~request.image.present
        THEN Done([status |-> 400, error |-> "No image file provided", result |-> <<>>], <<>>)
        ELSE IF request.image.filename = <<>>
        THEN Done([status |-> 400, error |-> "No image file selected", result |-> <<>>], <<>>)
        ELSE Goto("process", <<>>)
    /\ UNCHANGED <<fn, hue, stage, hex_color, image, result, globals>>

\* "Process the image": ripeness_result = detect_banana_ripeness(file)
DetectProcess ==
    /\ request.route \in DetectRoutes /\ request.pc = "process"
    /\ LET file == request.image.content
           outcome == detect_banana_ripeness(file)
       IN  /\ fn' = "detect_banana_ripeness"
           /\ image' = file
           /\ result' = outcome
           /\ request' =
               IF outcome.kind = "raise"
               THEN Done([status |-> 500, error |-> outcome.val, result |-> <<>>],
                         detect_calls(file))
               ELSE Done([status |-> 200, error |-> "", result |-> <<outcome.val>>],
                         detect_calls(file))
    /\ UNCHANGED <<hue, stage, hex_color, globals>>

\* the response is sent; nothing of the request is kept
Respond ==
    /\ request.pc = "done"
    /\ request' = NoRequest
    /\ fn' = "none"
    /\ hue' = Q(0)
    /\ stage' = 0
    /\ hex_color' = <<>>
    /\ image' = NoImage
    /\ result' = NoResult
    /\ UNCHANGED globals

\* the caller takes the outcome; the core keeps nothing of the call
Finish ==
    /\ fn # "none" /\ request.route = "none"
    /\ fn' = "none"
    /\ hue' = Q(0)
    /\ stage' = 0
    /\ hex_color' = <<>>
    /\ image' = NoImage
    /\ result' = NoResult
    /\ UNCHANGED <<globals, request>>

Next ==
    \/ CallHueToStage
    \/ CallEstimateDaysUntilPeak
    \/ CallCalculateStageConfidence
    \/ CallHexToHue
    \/ CallExtractDominantColor
    \/ CallDetectBananaRipeness
    \/ Finish
    \/ Receive
    \/ ClassifyInput
    \/ CheckExtension
    \/ CheckSize
    \/ ReadImage
    \/ ExtractHue
    \/ CheckHexFormat
    \/ ConvertHex
    \/ ValidateHue
    \/ ClassifyStage
    \/ EstimateDays
    \/ DetectInput
    \/ DetectProcess
    \/ Respond

Spec == Init /\ [][Next]_vars

----------------------------------------------------------------------------
(* Properties of hue_to_stage                                              *)

\* C1: hue_to_stage is total: for every hue, negative or above 360 included,
\* it returns (it does not raise) and the stage it returns is in 1..7.
C1_HueToStageTotal ==
    fn = "hue_to_stage" => result.kind = "return" /\ result.val \in 1..7

\* hue_to_stage has returned for a negative hue
C1_Witness ==
    fn = "hue_to_stage" /\ hue = Q(-30) /\ result = Return(3)

\* the canonical table of the specification, first match wins
CanonicalStage(h) ==
    IF Le(Q(60), h) /\ Le(h, Q(120)) THEN 1
    ELSE IF Le(Q(45), h) /\ Lt(h, Q(60)) THEN 2
    ELSE IF Le(Q(35), h) /\ Lt(h, Q(45)) THEN 3
    ELSE IF Le(Q(25), h) /\ Lt(h, Q(35)) THEN 4
    ELSE IF Le(Q(20), h) /\ Lt(h, Q(25)) THEN 6
    ELSE IF Le(Q(0), h) /\ Lt(h, Q(20)) THEN 7
    ELSE 3

\* C2: for every hue in [0,360) hue_to_stage returns the first match of the
\* canonical table ([60,120] -> 1, [45,60) -> 2, [35,45) -> 3, [25,35) -> 4,
\* [20,25) -> 6, [0,20) -> 7, else 3); so 45, 35, 25, 29 give 2, 3, 4, 4.
C2_CanonicalTable ==
    (fn = "hue_to_stage" /\ Le(Q(0), hue) /\ Lt(hue, Q(360)))
        => result = Return(CanonicalStage(hue))

\* C3: no hue is classified as stage 5, although stage 5 has its metadata.
C3_Stage5Unreachable ==
    /\ 5 \in DOMAIN STAGE_INFO
    /\ 5 \in DOMAIN DURATION_RANGES
    /\ fn = "hue_to_stage" => result # Return(5)

\* C4: hue_to_stage has period 360: the stage returned for h is the stage of
\* h + 360 and of h - 360; 450, -30, 720, -720 classify like 90, 330, 0, 0.
C4_Periodic ==
    fn = "hue_to_stage" =>
        /\ result = Return(hue_to_stage(RAdd(hue, Q(360))))
        /\ result = Return(hue_to_stage(RSub(hue, Q(360))))
        /\ hue = Q(450) => result = Return(hue_to_stage(Q(90)))
        /\ hue = Q(-30) => result = Return(hue_to_stage(Q(330)))
        /\ hue \in {Q(720), Q(-720)} => result = Return(hue_to_stage(Q(0)))

\* hue_to_stage has returned stage 1 for 450 degrees, the stage of 90 degrees
C4_Witness ==
    fn = "hue_to_stage" /\ hue = Q(450) /\ result = Return(1)

----------------------------------------------------------------------------
(* Properties of estimate_days_until_peak                                  *)

\* twice the sum of the mean durations of the stages a..b
RECURSIVE TwiceMeanSum(_, _)
TwiceMeanSum(a, b) ==
    IF a > b THEN 0
    ELSE DURATION_RANGES[a][1] + DURATION_RANGES[a][2] + TwiceMeanSum(a + 1, b)

\* t / 2 rounded to the nearest integer, a half going to the even neighbour
HalfToEven(t) ==
    IF t % 2 = 0 THEN t \div 2
    ELSE IF ((t - 1) \div 2) % 2 = 0 THEN (t - 1) \div 2 ELSE (t + 1) \div 2

ExpectedDays == <<10, 8, 6, 4, 2, 0, 0>>

\* C5: for every stage >= 1 estimate_days_until_peak returns 0 when
\* stage >= 6 (stages above 7 included) and otherwise the sum over stage..5 of
\* (min_days + max_days) / 2 rounded half to even: 10, 8, 6, 4, 2, 0, 0 for 1..7.
C5_DaysUntilPeak ==
    (fn = "estimate_days_until_peak" /\ stage >= 1) =>
        /\ stage >= 6 => result = Return(0)
        /\ stage < 6 => result = Return(HalfToEven(TwiceMeanSum(stage, 5)))
        /\ stage <= 7 => result = Return(ExpectedDays[stage])

\* stage 1: the sum 10.5 has been rounded to 10
C5_Witness ==
    fn = "estimate_days_until_peak" /\ stage = 1 /\ result = Return(10)

\* C6: for every stage < 1 estimate_days_until_peak raises KeyError and
\* returns no number.
C6_BelowOneRaises ==
    (fn = "estimate_days_until_peak" /\ stage < 1) => result = Raise("KeyError")

\* a negative stage has raised
C6_Witness ==
    fn = "estimate_days_until_peak" /\ stage = -1 /\ result.kind = "raise"

\* C7: estimate_days_until_peak is non-increasing in the stage: the value
\* returned for a stage s in 1..7 is >= the value for every later stage t <= 7.
C7_Monotone ==
    (fn = "estimate_days_until_peak" /\ stage \in 1..7) =>
        /\ result.kind = "return"
        /\ \A t \in (stage + 1)..7 :
              /\ estimate_days_until_peak(t).kind = "return"
              /\ estimate_days_until_peak(t).val <= result.val

\* stage 1, whose half-day sum is rounded, lies above stage 2
C7_Witness ==
    /\ fn = "estimate_days_until_peak" /\ stage = 1 /\ result.kind = "return"
    /\ estimate_days_until_peak(2).val < result.val

\* the total of the per-stage mean durations of the stages 1..7, doubled
TwiceTotalMean == TwiceMeanSum(1, 7)

\* C8: for every stage the classifier produces, days_until_peak is an integer
\* with 0 <= days_until_peak <= the total of the per-stage mean durations, and
\* <= 15.
C8_DaysInRange ==
    fn = "hue_to_stage" =>
        LET days == estimate_days_until_peak(result.val)
        IN  /\ days.kind = "return"
            /\ days.val \in 0..15
            /\ 2 * days.val <= TwiceTotalMean

\* a hue classified as stage 1, the stage with the most days until peak
C8_Witness ==
    /\ fn = "hue_to_stage" /\ result = Return(1)
    /\ estimate_days_until_peak(result.val) = Return(10)

----------------------------------------------------------------------------
(* Properties of calculate_stage_confidence                                *)

\* clamp(1 - |h - center| / half_width, 0.3, 1.0) for the range (low, high),
\* in integers: with h = n/d the unclamped score is
\* ((high - low) d - |2n - (low + high) d|) / ((high - low) d)
RefConfidence(h, low, high) ==
    LET den == (high - low) * h.d
        num == den - Abs(2 * h.n - (low + high) * h.d)
    IN  IF 10 * num < 3 * den THEN Rat(3, 10)
        ELSE IF num > den THEN Q(1)
        ELSE Rat(num, den)

C10_ConfidenceBounded ==
    /\ \A s \in DOMAIN stage_hue_ranges : stage_hue_ranges[s][1] # stage_hue_ranges[s][2]
    /\ (fn = "calculate_stage_confidence" /\ stage \in 1..7) =>
          /\ result.kind = "return"
          /\ Le(Rat(3, 10), result.val)
          /\ Le(result.val, Q(1))

\* a hue that is not normalized has scored the floor
C10_Witness ==
    fn = "calculate_stage_confidence" /\ stage = 1 /\ hue = Q(450)
        /\ result = Return(Rat(3, 10))

\* C11: a hue the test suite takes for the middle of a stage's range scores
\* high: calculate_stage_confidence is in [0.6, 1.0] for (hue 90, stage 1),
\* (hue 50, stage 2), (hue 30, stage 4) and (hue 10, stage 7).
C11_MidRangeHighConfidence ==
    (/\ fn = "calculate_stage_confidence"
     /\ <<hue, stage>> \in {<<Q(90), 1>>, <<Q(50), 2>>, <<Q(30), 4>>, <<Q(10), 7>>}) =>
        /\ result.kind = "return"
        /\ Le(Rat(6, 10), result.val)
        /\ Le(result.val, Q(1))

----------------------------------------------------------------------------
(* Properties of hex_to_hue                                                *)

\* an optional single leading '#' removed
WithoutOneHash(str) ==
    IF str # <<>> /\ Head(str) = "#" THEN Tail(str) ELSE str

\* an optional single leading '#' followed by exactly 3 or 6 hex digits
WellFormedHex(str) ==
    LET body == WithoutOneHash(str)
    IN  /\ Len(body) \in {3, 6}
        /\ \A i \in 1..Len(body) : body[i] \in DOMAIN HexValue

\* C12: hex_to_hue raises ValueError, and returns no hue, for every string
\* that is not an optional single leading '#' followed by exactly 3 or 6 hex
\* digits (a non-hex character, another length, the empty string, more than
\* one '#').
C12_RejectsMalformed ==
    (fn = "hex_to_hue" /\ ~WellFormedHex(hex_color)) => result = Raise("ValueError")

\* C13: hex_to_hue gives the 3-digit form 'abc' the hue of the 6-digit form
\* 'aabbcc', and gives a valid colour the same hue with and without the '#'.
C13_SpellingIndependent ==
    fn = "hex_to_hue" =>
        /\ (Len(hex_color) = 3 /\ all_hex(hex_color)) =>
              /\ result.kind = "return"
              /\ result = hex_to_hue(<<hex_color[1], hex_color[1], hex_color[2],
                                       hex_color[2], hex_color[3], hex_color[3]>>)
        /\ (WellFormedHex(hex_color) /\ Head(hex_color) # "#") =>
              /\ result.kind = "return"
              /\ result = hex_to_hue(<<"#">> \o hex_color)

\* 'F80' has been given the hue 32 of 'FF8800'
C13_Witness ==
    fn = "hex_to_hue" /\ hex_color = <<"F", "8", "0">> /\ result = Return(Q(32))

\* the 8-bit channels <<R, G, B>> of a well-formed colour
RefChannels(str) ==
    LET body == WithoutOneHash(str)
        v(i) == HexValue[body[i]]
    IN  IF Len(body) = 3 THEN <<17 * v(1), 17 * v(2), 17 * v(3)>>
        ELSE <<16 * v(1) + v(2), 16 * v(3) + v(4), 16 * v(5) + v(6)>>

MaxOf3(x, y, z) == IF x >= y /\ x >= z THEN x ELSE IF y >= z THEN y ELSE z

MinOf3(x, y, z) == IF x <= y /\ x <= z THEN x ELSE IF y <= z THEN y ELSE z

\* the standard RGB-to-HSV hue in degrees of 8-bit channels
RefHue(rgb) ==
    LET mx    == MaxOf3(rgb[1], rgb[2], rgb[3])
        delta == mx - MinOf3(rgb[1], rgb[2], rgb[3])
    IN  IF delta = 0 THEN Q(0)
        ELSE IF mx = rgb[1] THEN RMod(Rat(60 * (rgb[2] - rgb[3]), delta), 360)
        ELSE IF mx = rgb[2] THEN RAdd(Rat(60 * (rgb[3] - rgb[1]), delta), Q(120))
        ELSE RAdd(Rat(60 * (rgb[1] - rgb[2]), delta), Q(240))

\* C14: for every valid hex colour hex_to_hue returns the standard RGB-to-HSV
\* hue in degrees, in [0,360): green 120, red 0, blue 240, yellow 60,
\* magenta 300, cyan 180, and 0 for white, black and the greys.
C14_StandardHue ==
    (fn = "hex_to_hue" /\ WellFormedHex(hex_color)) =>
        LET rgb == RefChannels(hex_color)
        IN  /\ result.kind = "return"
            /\ result.val = RefHue(rgb)
            /\ Le(Q(0), result.val) /\ Lt(result.val, Q(360))
            /\ rgb = <<0, 255, 0>> => result.val = Q(120)
            /\ rgb = <<255, 0, 0>> => result.val = Q(0)
            /\ rgb = <<0, 0, 255>> => result.val = Q(240)
            /\ rgb = <<255, 255, 0>> => result.val = Q(60)
            /\ rgb = <<255, 0, 255>> => result.val = Q(300)
            /\ rgb = <<0, 255, 255>> => result.val = Q(180)
            /\ (rgb[1] = rgb[2] /\ rgb[2] = rgb[3]) => result.val = Q(0)

\* pure green, written '#0F0', has been given 120 degrees
C14_Witness ==
    fn = "hex_to_hue" /\ hex_color = <<"#", "0", "F", "0">> /\ result = Return(Q(120))

----------------------------------------------------------------------------
(* Statelessness                                                           *)

\* the outcome of estimate_days_until_peak under the tables as imported
RefDaysOutcome(s) ==
    IF s >= 6 THEN Return(0)
    ELSE IF s < 1 THEN Raise("KeyError")
    ELSE Return(HalfToEven(TwiceMeanSum(s, 5)))

----------------------------------------------------------------------------
(* Properties of extract_dominant_color                                    *)

\* C16: extract_dominant_color raises ValueError, and answers with no hue
\* (not with the fallback 60 either), when the byte buffer is empty or cannot
\* be decoded as an image.
C16_MalformedRaises ==
    (/\ fn = "extract_dominant_color"
     /\ \/ image.bytes = "empty"
        \/ image.bytes = "data" /\ ~image.decodable) =>
        result = Raise("ValueError")

\* a buffer that is no image has raised
C16_Witness ==
    /\ fn = "extract_dominant_color" /\ image.bytes = "data" /\ ~image.decodable
    /\ result.kind = "raise"

\* a decoded image on which a later step fails: a conversion or getdata()
\* raises, or the pixel list is empty
LaterStepFails(img) ==
    \/ img.fail \in {"convert_hsv", "getdata"}
    \/ img.fail = "convert_rgb" /\ img.mode # "RGB"
    \/ img.pixels = <<>>

C18_HalfOpenRange ==
    (fn = "extract_dominant_color" /\ result.kind = "return") =>
        Le(Q(0), result.val) /\ Lt(result.val, Q(360))

\* C18 as amended: every hue extract_dominant_color returns is in the closed
\* interval [0,360]; it is 360 only when the dominant bucket is 255, which
\* takes a sample in 253..255.
C18_ClosedRange ==
    (fn = "extract_dominant_color" /\ result.kind = "return") =>
        /\ Le(Q(0), result.val)
        /\ \/ Lt(result.val, Q(360))
           \/ /\ result.val = Q(360)
              /\ \E i \in DOMAIN image.pixels : image.pixels[i] \in 253..255

\* a one-pixel image of hue sample 254 has been given 360 degrees
C18_Witness ==
    fn = "extract_dominant_color" /\ image.pixels = <<254>> /\ result = Return(Q(360))

\* the nearest multiple of 5 (no sample lies halfway between two)
RefBucket(h) == ((h + 2) \div 5) * 5

RefCount(px, b) == Cardinality({ i \in DOMAIN px : RefBucket(px[i]) = b })

RefFirst(px, b) == CHOOSE i \in DOMAIN px :
    /\ RefBucket(px[i]) = b
    /\ \A j \in DOMAIN px : RefBucket(px[j]) = b => i <= j

\* the bucket of highest count, the earliest-starting one among equals
RefDominant(px) ==
    LET buckets == { RefBucket(px[i]) : i \in DOMAIN px }
    IN  CHOOSE b \in buckets : \A c \in buckets \ {b} :
            \/ RefCount(px, b) > RefCount(px, c)
            \/ RefCount(px, b) = RefCount(px, c) /\ RefFirst(px, b) < RefFirst(px, c)

\* C19: for every non-empty sequence of 8-bit hue samples the dominant hue is
\* (b / 255) * 360, b being the bucket (sample rounded to the nearest multiple
\* of 5) of highest count and, among buckets of equal count, the one whose
\* first sample comes earliest in pixel order.
C19_DominantBucket ==
    (/\ fn = "extract_dominant_color"
     /\ image.bytes = "data" /\ image.decodable /\ image.fail = "none"
     /\ image.pixels # <<>>) =>
        result = Return(Rat(RefDominant(image.pixels) * 360, 255))

\* two buckets with two samples each: the one that started first has won
C19_Witness ==
    /\ fn = "extract_dominant_color" /\ image.pixels = <<128, 0, 2, 128>>
    /\ result = Return(Rat(130 * 360, 255))

----------------------------------------------------------------------------
(* Properties of detect_banana_ripeness                                    *)

\* C20: detect_banana_ripeness never raises; when the hue extraction fails
\* (an empty or undecodable image, for example) it returns the report with
\* stage 0, confidence 0.0, days_until_peak 0 and the generic recommendation;
\* otherwise a report whose stage is in 1..7 and whose description,
\* days_until_peak, confidence and recommendations are those of that stage
\* and hue.
C20_DetectTotal ==
    fn = "detect_banana_ripeness" =>
        /\ result.kind = "return"
        /\ LET extracted == extract_dominant_color(image)
               report == result.val
           IN  IF image.bytes = "unreadable" \/ extracted.kind = "raise"
               THEN /\ report.stage = 0
                    /\ report.confidence = Q(0)
                    /\ report.days_until_peak = 0
                    /\ report.recommendations = <<"Please try with a clearer image">>
               ELSE /\ report.stage \in 1..7
                    /\ report.stage = hue_to_stage(extracted.val)
                    /\ report.dominant_hue = extracted.val
                    /\ report.description = STAGE_INFO[report.stage]
                    /\ report.days_until_peak = ExpectedDays[report.stage]
                    /\ report.confidence =
                           RefConfidence(report.dominant_hue,
                                         stage_hue_ranges[report.stage][1],
                                         stage_hue_ranges[report.stage][2])
                    /\ report.recommendations = recommendations[report.stage]

\* an empty image has been answered with the stage 0 report
C20_Witness ==
    /\ fn = "detect_banana_ripeness" /\ image.bytes = "empty"
    /\ result.kind = "return" /\ result.val.stage = 0

----------------------------------------------------------------------------
(* Properties of the web boundary                                          *)

\* in the trace tr every step b comes after a step a
Precedes(a, b, tr) ==
    \A i \in DOMAIN tr : tr[i] = b => \E j \in 1..(i - 1) : tr[j] = a

CoreFunctions ==
    {"extract_dominant_color", "hex_to_hue", "hue_to_stage",
     "estimate_days_until_peak", "detect_banana_ripeness"}

\* the request's input does not pass the validation of the web boundary: a
\* selected upload of another extension or above 10MB, or else a colour that
\* is no hex colour
FailsValidation(req) ==
    IF req.image.present /\ req.image.filename # <<>>
    THEN \/ ~endswith(lower(req.image.filename), allowed_extensions)
         \/ req.image.size > max_size
    ELSE /\ req.color.present
         /\ ~(req.color.isstr /\ is_valid_hex_color(req.color.chars))

\* C21: on every request path of the web boundary validation precedes the
\* core: extract_dominant_color is invoked on an upload only after the
\* extension check and the 10MB size check have both passed, hex_to_hue only
\* after the hex-format check has passed, and a request that fails validation
\* never reaches the core.
C21_ValidationPrecedesCore ==
    request.route # "none" =>
        /\ Precedes("extension", "extract_dominant_color", request.trace)
        /\ Precedes("size", "extract_dominant_color", request.trace)
        /\ Precedes("hex_format", "hex_to_hue", request.trace)
        /\ FailsValidation(request) =>
               \A i \in DOMAIN request.trace : request.trace[i] \notin CoreFunctions

\* the same on the routes /classify and /api/classify alone
ClassifyValidationPrecedesCore ==
    request.route \in ClassifyRoutes => C21_ValidationPrecedesCore

\* an upload has passed both checks of /classify and reached the core
ClassifyReachesCore ==
    /\ request.route \in ClassifyRoutes
    /\ request.trace = <<"extension", "size", "extract_dominant_color">>

\* C22: the hue ranges of the confidence score are those of the
\* classification: every hue h in [0,120] lies in the range low <= h <= high
\* that calculate_stage_confidence uses for the stage hue_to_stage(h), and
\* HUE_RANGES of constants.py equals the table of calculate_stage_confidence.
C22_SameRanges ==
    /\ HUE_RANGES = stage_hue_ranges
    /\ (fn = "hue_to_stage" /\ Le(Q(0), hue) /\ Le(hue, Q(120))) =>
           /\ result.kind = "return"
           /\ result.val \in DOMAIN stage_hue_ranges
           /\ Le(Q(stage_hue_ranges[result.val][1]), hue)
           /\ Le(hue, Q(stage_hue_ranges[result.val][2]))

\* hue 47.5 has been classified, into the stage whose range is 40..50
C22_Witness ==
    fn = "hue_to_stage" /\ hue = Rat(95, 2) /\ result = Return(3)

\* C23: the hex check of the boundary and the validation of the core accept
\* the same strings: is_valid_hex_color(s) is True exactly when hex_to_hue(s)
\* returns a hue; so hex_to_hue never fails on a colour the boundary let
\* through.
C23_SameStringsAccepted ==
    /\ fn = "hex_to_hue" =>
           (is_valid_hex_color(hex_color) <=> result.kind = "return")
    /\ request.response.error # "Error processing color value. Please try again."

\* the boundary has let '#F80' through and hex_to_hue has returned its hue
C23_Witness ==
    /\ request.route \in ClassifyRoutes
    /\ request.color.chars = <<"#", "F", "8", "0">>
    /\ request.trace = <<"hex_format", "hex_to_hue">>
    /\ fn = "hex_to_hue" /\ result.kind = "return"

\* hex_to_hue, called directly, has rejected a string the boundary rejects too
C23_RejectedByBoth ==
    /\ request.route = "none" /\ fn = "hex_to_hue"
    /\ hex_color = <<"G", "G", "G">> /\ result = Raise("ValueError")

====
